---- MODULE Spec2Model ----
(***************************************************************************)
(* One render pass of the Traunsee pressure-gradient dashboard            *)
(* (src/weather_app.py): date validation, the four per-location fetches,  *)
(* the merge with its derived columns, the charts, and the grid wind map. *)
(*                                                                         *)
(* Dates are day numbers, timestamps are hour numbers, coordinates are    *)
(* integers (thousandths resp. hundredths of a degree).  A value that may *)
(* be missing (JSON null / NaN) is <<>> when missing and <<v>> otherwise. *)
(* Sines and cosines are taken from a table scaled by 1000.               *)
(***************************************************************************)
EXTENDS Integers, Sequences, FiniteSets

VARIABLES pc, today, start_date, end_date, requests, served, dfs, fetch_i,
          df, charts, messages, forecast_hour, grid_i, all_data, wv

vars == <<pc, today, start_date, end_date, requests, served, dfs, fetch_i,
          df, charts, messages, forecast_hour, grid_i, all_data, wv>>

(* ------------------------------ bounds ------------------------------ *)

\* day numbers the date pickers and the clock range over: 0..MaxDay
MaxDay == 2
\* hourly timestamps a per-location response may hold: 1..MaxTime
MaxTime == 2
\* number of points of the wind grid that are fetched
NumGridPoints == 2
\* wind speeds of the wind_vector check: 0..MaxSpeed
MaxSpeed == 5

Days == 0..MaxDay
Times == 1..MaxTime

(* --------------------------- configuration -------------------------- *)

LocationOrder == <<"Traunkirchen", "Gmunden", "Bad_Ischl", "Ried">>

coords ==
    [Traunkirchen |-> <<47993, 13745>>,
     Gmunden      |-> <<47918, 13799>>,
     Bad_Ischl    |-> <<47714, 13632>>,
     Ried         |-> <<48198, 13490>>]

ArchiveUrl == "https://archive-api.open-meteo.com/v1/archive"
ForecastUrl == "https://api.open-meteo.com/v1/forecast"

ForecastDays == 2
SliderMax == 48

Missing == <<>>

(* --------------------------- fetch_openmeteo ------------------------- *)

IsoFormat(d) == <<"date", d>>

EndpointUrlStartMut(start, end, now_day) ==
    IF start <= now_day THEN ArchiveUrl ELSE ForecastUrl

EndpointUrl(start, end, now_day) ==
    IF end <= now_day THEN ArchiveUrl ELSE ForecastUrl

OpenMeteoRequest(name, start, end, now_day) ==
    [fn     |-> "fetch_openmeteo",
     loc    |-> name,
     url    |-> EndpointUrl(start, end, now_day),
     params |-> [latitude   |-> coords[name][1],
                 longitude  |-> coords[name][2],
                 start_date |-> IsoFormat(start),
                 end_date   |-> IsoFormat(end),
                 hourly     |-> <<"pressure_msl", "cloud_cover", "cloud_cover_low",
                                  "cloud_cover_mid", "cloud_cover_high",
                                  "wind_speed_10m", "wind_direction_10m">>,
                 timezone   |-> "Europe/Vienna"]]

LocIndex(name) == CHOOSE k \in 1..Len(LocationOrder) : LocationOrder[k] = name

\* the values the weather service reports: they differ between locations and
\* between timestamps
PressureAt(name, t) == 1000 + 7 * LocIndex(name) + t * t * LocIndex(name)
CloudAt(t) == (50 * t) % 150

\* the hourly table of a response holding the timestamps S, with a null
\* pressure at the timestamps N
HourlyTable(name, S, N) ==
    [t \in S |-> [pressure_msl |-> IF t \in N THEN Missing ELSE <<PressureAt(name, t)>>,
                  cloud_cover  |-> <<CloudAt(t)>>]]

AllTables(name) == { HourlyTable(name, S, N) : S \in SUBSET Times, N \in SUBSET Times }

RegularTable(name) == HourlyTable(name, Times, {})

EmptyTable == HourlyTable("Traunkirchen", {}, {})

\* df before the merge has built it
NoTable == [built |-> FALSE, rows |-> EmptyTable]

LocationResponses(name) ==
    { [kind |-> k, hourly |-> EmptyTable] : k \in {"conn_error", "http_error", "malformed"} }
    \cup { [kind |-> "ok", hourly |-> RegularTable(name)] }

FetchAbortsStatusIgnoredMut(resp) == resp.kind \in {"conn_error", "malformed"}

\* requests.get raising, raise_for_status raising, or data["hourly"] missing
FetchAborts(resp) == resp.kind # "ok"

(* ----------------------------- validation ---------------------------- *)

InvalidRangeOrEqualMut(start, end) == end <= start

InvalidRange(start, end) == end < start

ValidationError == [level |-> "error", text |-> "Enddatum muss nach Startdatum sein"]
NoWindWarning == [level |-> "warning", text |-> "Keine Winddaten verfuegbar."]

NoWind == [speed |-> 0, direction |-> 0, u |-> 0, v |-> 0, applied |-> FALSE]

\* one render pass, for a clock day and the date ranges around it
Init ==
    /\ pc = "validate"
    /\ today = 1
    /\ start_date \in (today - 1)..today
    /\ end_date \in (today - 1)..(today + 1)
    /\ requests = <<>>
    /\ served = <<>>
    /\ dfs = <<>>
    /\ fetch_i = 1
    /\ df = NoTable
    /\ charts = <<>>
    /\ messages = <<>>
    /\ forecast_hour = 0
    /\ grid_i = 1
    /\ all_data = <<>>
    /\ wv = NoWind

Validate ==
    /\ pc = "validate"
    /\ IF InvalidRange(start_date, end_date)
       THEN /\ messages' = Append(messages, ValidationError)
            /\ pc' = "stopped"
       ELSE /\ messages' = messages
            /\ pc' = "fetch"
    /\ UNCHANGED <<today, start_date, end_date, requests, served, dfs, fetch_i,
                   df, charts, forecast_hour, grid_i, all_data, wv>>

(* ------------------------- per-location fetches ---------------------- *)

FetchLocation ==
    /\ pc = "fetch"
    /\ fetch_i <= Len(LocationOrder)
    /\ LET name == LocationOrder[fetch_i] IN
       \E resp \in LocationResponses(name) :
          /\ requests' = Append(requests, OpenMeteoRequest(name, start_date, end_date, today))
          /\ served' = Append(served, resp)
          /\ IF FetchAborts(resp)
             THEN /\ pc' = "crashed"
                  /\ UNCHANGED <<dfs, fetch_i>>
             ELSE /\ dfs' = [n \in DOMAIN dfs \cup {name} |->
                               IF n = name THEN resp.hourly ELSE dfs[n]]
                  /\ fetch_i' = fetch_i + 1
                  /\ pc' = IF fetch_i = Len(LocationOrder) THEN "merge" ELSE "fetch"
    /\ UNCHANGED <<today, start_date, end_date, df, charts, messages,
                   forecast_hour, grid_i, all_data, wv>>

(* ------------------------ merge, derived columns --------------------- *)

MinusMissingAsZeroMut(a, b) ==
    <<(IF a = Missing THEN 0 ELSE a[1]) - (IF b = Missing THEN 0 ELSE b[1])>>

\* float subtraction: NaN when either operand is NaN
Minus(a, b) == IF a = Missing \/ b = Missing THEN Missing ELSE <<a[1] - b[1]>>

MergeIndexUnionMut(d) == UNION { DOMAIN d[n] : n \in DOMAIN d }

\* df = dfs["Traunkirchen"].rename(...): the frame keeps that table's index
MergeIndex(d) == DOMAIN d["Traunkirchen"]

\* df[col] = dfs[name][field]: the series is aligned on the frame's index
Column(d, name, field, t) ==
    IF t \in DOMAIN d[name] THEN d[name][t][field] ELSE Missing

MergedTable(d) ==
    [t \in MergeIndex(d) |->
        LET P_T == Column(d, "Traunkirchen", "pressure_msl", t)
            P_G == Column(d, "Gmunden", "pressure_msl", t)
            P_B == Column(d, "Bad_Ischl", "pressure_msl", t)
            P_R == Column(d, "Ried", "pressure_msl", t)
        IN  [P_T         |-> P_T,
             cloud_cover |-> Column(d, "Traunkirchen", "cloud_cover", t),
             P_G         |-> P_G,
             delta_P_TG  |-> Minus(P_T, P_G),
             P_B         |-> P_B,
             P_R         |-> P_R,
             delta_P_BR  |-> Minus(P_B, P_R),
             cloud_total |-> Column(d, "Traunkirchen", "cloud_cover", t)]]

Merge ==
    /\ pc = "merge"
    /\ df' = [built |-> TRUE, rows |-> MergedTable(dfs)]
    /\ pc' = "plot_dp"
    /\ UNCHANGED <<today, start_date, end_date, requests, served, dfs, fetch_i,
                   charts, messages, forecast_hour, grid_i, all_data, wv>>

(* -------------------------------- charts ----------------------------- *)

SetMin(S) == CHOOSE x \in S : \A y \in S : x <= y
SetMax(S) == CHOOSE x \in S : \A y \in S : y <= x

\* the "Jetzt" marker is added when the clock lies within the table's index
NowWithinIndex(table, now) ==
    /\ DOMAIN table # {}
    /\ SetMin(DOMAIN table) <= now
    /\ now <= SetMax(DOMAIN table)

DeltaPChart(table, marker) ==
    [chart  |-> "delta_p",
     traces |-> [dP_TG  |-> [t \in DOMAIN table |-> table[t].delta_P_TG],
                 dP_BR  |-> [t \in DOMAIN table |-> table[t].delta_P_BR],
                 clouds |-> [name |-> "clouds total [Okta]",
                             y    |-> [t \in DOMAIN table |-> table[t].cloud_total]]],
     marker |-> marker]

\* The marker's line colour is the name "oragnge", which the charting library
\* may reject; both outcomes are kept when the marker is added.
PlotDeltaP ==
    /\ pc = "plot_dp"
    /\ \E now \in 0..(MaxTime + 1) :
          IF NowWithinIndex(df.rows, now)
          THEN \/ /\ pc' = "crashed"
                  /\ charts' = charts
               \/ /\ pc' = "plot_clouds"
                  /\ charts' = Append(charts, DeltaPChart(df.rows, TRUE))
          ELSE /\ pc' = "plot_clouds"
               /\ charts' = Append(charts, DeltaPChart(df.rows, FALSE))
    /\ UNCHANGED <<today, start_date, end_date, requests, served, dfs, fetch_i,
                   df, messages, forecast_hour, grid_i, all_data, wv>>

PlotClouds ==
    /\ pc = "plot_clouds"
    /\ charts' = Append(charts, [chart |-> "clouds"])
    /\ pc' = "plot_wind"
    /\ UNCHANGED <<today, start_date, end_date, requests, served, dfs, fetch_i,
                   df, messages, forecast_hour, grid_i, all_data, wv>>

PlotWind ==
    /\ pc = "plot_wind"
    /\ charts' = Append(charts, [chart |-> "wind"])
    /\ pc' = "plot_arome"
    /\ UNCHANGED <<today, start_date, end_date, requests, served, dfs, fetch_i,
                   df, messages, forecast_hour, grid_i, all_data, wv>>

PlotArome ==
    /\ pc = "plot_arome"
    /\ charts' = Append(charts, [chart |-> "arome"])
    /\ pc' = "slider"
    /\ UNCHANGED <<today, start_date, end_date, requests, served, dfs, fetch_i,
                   df, messages, forecast_hour, grid_i, all_data, wv>>

(* ------------------------------ wind grid ---------------------------- *)

SelectForecastHour ==
    /\ pc = "slider"
    /\ forecast_hour' \in 0..SliderMax
    /\ pc' = "grid"
    /\ UNCHANGED <<today, start_date, end_date, requests, served, dfs, fetch_i,
                   df, charts, messages, grid_i, all_data, wv>>

\* np.arange(start, end, step) in hundredths of a degree; the float
\* arithmetic of the default arguments yields 5 latitudes and 8 longitudes
ARange(start, count) == [k \in 1..count |-> start + (k - 1)]

generate_traunsee_grid ==
    LET lats == ARange(4788, 5)
        lons == ARange(1374, 8)
    IN  [k \in 1..(Len(lats) * Len(lons)) |->
            <<lats[((k - 1) \div Len(lons)) + 1], lons[((k - 1) % Len(lons)) + 1]>>]

\* the grid points that are fetched
GridCoords == SubSeq(generate_traunsee_grid, 1, NumGridPoints)

Sin1000(deg) ==
    CASE deg = 0   -> 0     [] deg = 30  -> 500   [] deg = 60  -> 866
      [] deg = 90  -> 1000  [] deg = 120 -> 866   [] deg = 150 -> 500
      [] deg = 180 -> 0     [] deg = 210 -> -500  [] deg = 240 -> -866
      [] deg = 270 -> -1000 [] deg = 300 -> -866  [] deg = 330 -> -500

Cos1000(deg) == Sin1000((deg + 90) % 360)

Directions == { 30 * k : k \in 0..11 }

wind_vector_swapped_mut(speed, direction_deg) ==
    [u |-> (0 - speed) * Cos1000(direction_deg),
     v |-> (0 - speed) * Sin1000(direction_deg)]

wind_vector(speed, direction_deg) ==
    [u |-> (0 - speed) * Sin1000(direction_deg),
     v |-> (0 - speed) * Cos1000(direction_deg)]

\* the wind the forecast reports for hour t
WindAt(t) == [wind_speed_10m |-> t % 4, wind_direction_10m |-> (30 * t) % 360]

GridRequest(point) ==
    [fn     |-> "fetch_forecast_grid",
     loc    |-> point,
     url    |-> ForecastUrl,
     params |-> [latitude      |-> point[1],
                 longitude     |-> point[2],
                 hourly        |-> <<"wind_speed_10m", "wind_direction_10m">>,
                 forecast_days |-> ForecastDays,
                 timezone      |-> "Europe/Vienna"]]

\* a grid response: a failure, or n hourly records starting at hour base
GridResponses ==
    { [kind |-> k, base |-> 0, n |-> 0] : k \in {"conn_error", "http_error", "malformed"} }
    \cup { [kind |-> "ok", base |-> 0, n |-> 0] }
    \cup { [kind |-> "ok", base |-> b, n |-> 24 * d] : b \in 0..1, d \in 1..ForecastDays }

\* pd.DataFrame(data["hourly"]) of a response
GridHourly(resp) == [t \in resp.base..(resp.base + resp.n - 1) |-> WindAt(t)]

GridPointFails(resp) == resp.kind # "ok"

SelectedTimeNoMinMut(table, hour) == hour

\* df["time"].min() + pd.Timedelta(hours=forecast_hour); NaT on an empty table
SelectedTime(table, hour) ==
    IF DOMAIN table = {} THEN -1 ELSE SetMin(DOMAIN table) + hour

GridRow(point, table, hour) ==
    LET sel == SelectedTime(table, hour)
        uv  == wind_vector(table[sel].wind_speed_10m, table[sel].wind_direction_10m)
    IN  [lat |-> point[1], lon |-> point[2], u |-> uv.u, v |-> uv.v,
         speed |-> table[sel].wind_speed_10m,
         direction |-> table[sel].wind_direction_10m,
         time |-> sel]

GridNextBreakMut(i, failed) == IF failed THEN Len(GridCoords) + 1 ELSE i + 1

\* except Exception: print(...) -- the loop goes on to the next point
GridNext(i, failed) == i + 1

GridFetchPoint ==
    /\ pc = "grid"
    /\ grid_i <= Len(GridCoords)
    /\ \E resp \in GridResponses :
          LET point == GridCoords[grid_i]
              table == GridHourly(resp)
              failed == GridPointFails(resp)
          IN  /\ requests' = Append(requests, GridRequest(point))
              /\ served' = Append(served, resp)
              /\ all_data' = IF ~failed /\ SelectedTime(table, forecast_hour) \in DOMAIN table
                             THEN Append(all_data, GridRow(point, table, forecast_hour))
                             ELSE all_data
              /\ grid_i' = GridNext(grid_i, failed)
              /\ pc' = IF grid_i' > Len(GridCoords) THEN "wind_map" ELSE "grid"
    /\ UNCHANGED <<today, start_date, end_date, dfs, fetch_i, df, charts,
                   messages, forecast_hour, wv>>

IsEmptyNeverMut(rows) == FALSE

\* df_wind.empty
IsEmpty(rows) == rows = <<>>

\* plot_wind_map reads df_wind["time"].iloc[0]
WindMap ==
    /\ pc = "wind_map"
    /\ IF IsEmpty(all_data)
       THEN /\ messages' = Append(messages, NoWindWarning)
            /\ charts' = charts
            /\ pc' = "done"
       ELSE IF all_data = <<>>
            THEN /\ pc' = "map_crashed"
                 /\ UNCHANGED <<messages, charts>>
            ELSE /\ charts' = Append(charts, [chart |-> "wind_map",
                                              title_time |-> all_data[1].time,
                                              arrows |-> Len(all_data)])
                 /\ messages' = messages
                 /\ pc' = "done"
    /\ UNCHANGED <<today, start_date, end_date, requests, served, dfs, fetch_i,
                   df, forecast_hour, grid_i, all_data, wv>>

(* ----------------------------- wind_vector --------------------------- *)

ApplyWindVector ==
    /\ pc = "wind_vector"
    /\ LET uv == wind_vector(wv.speed, wv.direction) IN
          wv' = [wv EXCEPT !.u = uv.u, !.v = uv.v, !.applied = TRUE]
    /\ pc' = "wind_done"
    /\ UNCHANGED <<today, start_date, end_date, requests, served, dfs, fetch_i,
                   df, charts, messages, forecast_hour, grid_i, all_data>>

(* --------------------------- specifications -------------------------- *)

Next ==
    \/ Validate
    \/ FetchLocation
    \/ Merge
    \/ PlotDeltaP
    \/ PlotClouds
    \/ PlotWind
    \/ PlotArome
    \/ SelectForecastHour
    \/ GridFetchPoint
    \/ WindMap

Spec == Init /\ [][Next]_vars

\* fetch_openmeteo over every date range and every clock day
InitEndpoint ==
    /\ pc = "validate"
    /\ today \in Days
    /\ start_date \in Days
    /\ end_date \in Days
    /\ requests = <<>>
    /\ served = <<>>
    /\ dfs = <<>>
    /\ fetch_i = 1
    /\ df = NoTable
    /\ charts = <<>>
    /\ messages = <<>>
    /\ forecast_hour = 0
    /\ grid_i = 1
    /\ all_data = <<>>
    /\ wv = NoWind

NextEndpoint == Validate \/ FetchLocation

SpecEndpoint == InitEndpoint /\ [][NextEndpoint]_vars

\* the merge over every combination of tables the four fetches can return
InitMerge ==
    /\ pc = "merge"
    /\ today = 1
    /\ start_date = 0
    /\ end_date = 1
    /\ \E tT \in AllTables("Traunkirchen"), tG \in AllTables("Gmunden"),
          tB \in AllTables("Bad_Ischl"), tR \in AllTables("Ried") :
          /\ dfs = [Traunkirchen |-> tT, Gmunden |-> tG, Bad_Ischl |-> tB, Ried |-> tR]
          /\ served = <<[kind |-> "ok", hourly |-> tT], [kind |-> "ok", hourly |-> tG],
                        [kind |-> "ok", hourly |-> tB], [kind |-> "ok", hourly |-> tR]>>
    /\ requests = [k \in 1..Len(LocationOrder) |->
                      OpenMeteoRequest(LocationOrder[k], 0, 1, 1)]
    /\ fetch_i = 5
    /\ df = NoTable
    /\ charts = <<>>
    /\ messages = <<>>
    /\ forecast_hour = 0
    /\ grid_i = 1
    /\ all_data = <<>>
    /\ wv = NoWind

NextMerge == Merge \/ PlotDeltaP

SpecMerge == InitMerge /\ [][NextMerge]_vars

\* wind_vector over every speed and direction of the table
InitWind ==
    /\ pc = "wind_vector"
    /\ today = 1
    /\ start_date = 0
    /\ end_date = 1
    /\ requests = <<>>
    /\ served = <<>>
    /\ dfs = <<>>
    /\ fetch_i = 1
    /\ df = NoTable
    /\ charts = <<>>
    /\ messages = <<>>
    /\ forecast_hour = 0
    /\ grid_i = 1
    /\ all_data = <<>>
    /\ wv \in { [speed |-> s, direction |-> d, u |-> 0, v |-> 0, applied |-> FALSE] :
                 s \in 0..MaxSpeed, d \in Directions }

NextWind == ApplyWindVector

SpecWind == InitWind /\ [][NextWind]_vars
(* ------------------------------- claims ------------------------------ *)

Range(seq) == { seq[k] : k \in 1..Len(seq) }

IsLocRequest(r) == r.fn = "fetch_openmeteo"
IsGridRequest(r) == r.fn = "fetch_forecast_grid"

\* positions in requests/served of the grid fetches, in the order issued
GridPositions ==
    SelectSeq([k \in 1..Len(requests) |-> k], LAMBDA k : IsGridRequest(requests[k]))

\* a grid response that holds a record forecast_hour hours after its first one
HasRecordAtOffset(resp) == resp.kind = "ok" /\ forecast_hour < resp.n

MapShown == \E k \in 1..Len(charts) : charts[k].chart = "wind_map"

\* C1: every fetch_openmeteo request goes to the archive endpoint iff
\* end_date <= today and to the forecast endpoint otherwise, whatever the start
\* date; it carries start_date and end_date and neither past_days nor
\* forecast_days.
C1_EndpointByEndDate ==
    \A k \in 1..Len(requests) :
        IsLocRequest(requests[k]) =>
            /\ start_date <= end_date
            /\ (requests[k].url = ArchiveUrl) <=> (end_date <= today)
            /\ (requests[k].url = ForecastUrl) <=> (end_date > today)
            /\ {"start_date", "end_date"} \subseteq DOMAIN requests[k].params
            /\ requests[k].params.start_date = <<"date", start_date>>
            /\ requests[k].params.end_date = <<"date", end_date>>
            /\ {"past_days", "forecast_days"} \cap DOMAIN requests[k].params = {}

\* a range that starts before today and ends after it was sent to the forecast
\* endpoint
C1_Witness ==
    /\ start_date < today
    /\ today < end_date
    /\ Len(requests) >= 1
    /\ requests[1].url = ForecastUrl

\* C2: with end_date < start_date the validation error is reported and the
\* render halts with no HTTP GET and no chart; with end_date >= start_date no
\* validation error is reported and the fetches proceed.
C2_InvalidRangeHalts ==
    /\ (end_date < start_date /\ pc # "validate") =>
           /\ pc = "stopped"
           /\ messages = <<ValidationError>>
           /\ requests = <<>>
           /\ charts = <<>>
    /\ (end_date >= start_date) =>
           /\ ValidationError \notin Range(messages)
           /\ pc # "stopped"
           /\ pc # "validate" => (pc = "fetch" /\ fetch_i = 1) \/ Len(requests) >= 1

C2_Witness ==
    /\ end_date < start_date
    /\ pc = "stopped"
    /\ messages = <<ValidationError>>

\* C4: the four locations are requested at most once each, in the order
\* Traunkirchen, Gmunden, Bad_Ischl, Ried; a failing location is the last
\* request of the render: no retry, no later location, no merged table, no
\* chart and no grid fetch.
C4_FetchFailureAborts ==
    \A k \in 1..Len(requests) :
        IsLocRequest(requests[k]) =>
            /\ k <= Len(LocationOrder)
            /\ requests[k].loc = LocationOrder[k]
            /\ served[k].kind # "ok" =>
                   /\ Len(requests) = k
                   /\ pc = "crashed"
                   /\ ~df.built
                   /\ charts = <<>>
                   /\ all_data = <<>>

\* the second location answered with a non-2xx status
C4_Witness ==
    /\ pc = "crashed"
    /\ Len(requests) = 2
    /\ served[1].kind = "ok"
    /\ served[2].kind = "http_error"

\* C5: every grid point is requested exactly once, in grid order, whatever
\* the earlier points answered, and the rows collected are, in grid order,
\* exactly the points that answered successfully with a record at the selected
\* time.
C5_GridFailureSkipsPoint ==
    LET pos == GridPositions
        kept == SelectSeq(pos, LAMBDA k : HasRecordAtOffset(served[k]))
    IN  /\ Len(pos) <= Len(GridCoords)
        /\ \A j \in 1..Len(pos) : requests[pos[j]].loc = GridCoords[j]
        /\ pc = "grid" => Len(pos) = grid_i - 1
        /\ pc \in {"wind_map", "done", "map_crashed"} => Len(pos) = Len(GridCoords)
        /\ Len(all_data) = Len(kept)
        /\ \A m \in 1..Len(kept) :
               <<all_data[m].lat, all_data[m].lon>> = requests[kept[m]].loc

\* the first grid point failed and a later one still contributed a row
C5_Witness ==
    /\ pc = "done"
    /\ Len(GridPositions) = Len(GridCoords)
    /\ served[GridPositions[1]].kind # "ok"
    /\ Len(all_data) >= 1

\* C9: once the grid fetch is complete the warning is shown iff the result
\* is empty and the map is rendered iff it is not; plot_wind_map never runs on
\* an empty table.
C9_WarningIffEmpty ==
    /\ pc # "map_crashed"
    /\ pc = "done" =>
           /\ (NoWindWarning \in Range(messages)) <=> (all_data = <<>>)
           /\ MapShown <=> (all_data # <<>>)
    /\ pc # "done" => NoWindWarning \notin Range(messages) /\ ~MapShown

\* every grid point failed and the warning replaced the map
C9_Witness ==
    /\ pc = "done"
    /\ \A j \in 1..Len(GridPositions) : served[GridPositions[j]].kind # "ok"
    /\ NoWindWarning \in Range(messages)
    /\ ~MapShown

PressureDifference(A, B, t) ==
    IF /\ t \in DOMAIN A
       /\ t \in DOMAIN B
       /\ A[t].pressure_msl # Missing
       /\ B[t].pressure_msl # Missing
    THEN <<A[t].pressure_msl[1] - B[t].pressure_msl[1]>>
    ELSE Missing

\* C3: at every timestamp of the merged table delta_P_TG is
\* pressure(Traunkirchen) - pressure(Gmunden) and delta_P_BR is
\* pressure(Bad_Ischl) - pressure(Ried), both taken at that timestamp, and
\* missing whenever either operand has no defined value there.
C3_DeltaPointwise ==
    df.built =>
        \A t \in DOMAIN df.rows :
            /\ df.rows[t].delta_P_TG =
                   PressureDifference(dfs["Traunkirchen"], dfs["Gmunden"], t)
            /\ df.rows[t].delta_P_BR =
                   PressureDifference(dfs["Bad_Ischl"], dfs["Ried"], t)

\* one timestamp with a defined delta_P_TG, another where it is missing because
\* Gmunden reports null there
C3_Witness ==
    /\ df.built
    /\ \E t1, t2 \in DOMAIN df.rows :
           /\ t1 # t2
           /\ df.rows[t1].delta_P_TG # Missing
           /\ df.rows[t2].delta_P_TG = Missing
           /\ df.rows[t2].P_T # Missing
           /\ t2 \in DOMAIN dfs["Gmunden"]

C6_CloudScaledOkta ==
    \A k \in 1..Len(charts) :
        charts[k].chart = "delta_p" =>
            \A t \in DOMAIN charts[k].traces.clouds.y :
                LET y == charts[k].traces.clouds.y[t]
                    c == dfs["Traunkirchen"][t].cloud_cover
                IN  /\ 100 * y[1] = 4 * c[1]
                    /\ y[1] \in 0..4

\* atan2(y, x) in degrees, 0..360, on the directions of the table;
\* atan2(0, 0) is 0
Atan2Deg(y, x) ==
    IF y = 0 /\ x = 0 THEN 0
    ELSE CHOOSE d \in Directions :
            \A e \in Directions :
                y * Sin1000(d) + x * Cos1000(d) >= y * Sin1000(e) + x * Cos1000(e)

CardinalComponents ==
    /\ wv.direction = 0 => wv.u = 0 /\ wv.v = (0 - 1000) * wv.speed
    /\ wv.direction = 90 => wv.u = (0 - 1000) * wv.speed /\ wv.v = 0
    /\ wv.direction = 180 => wv.u = 0 /\ wv.v = 1000 * wv.speed
    /\ wv.direction = 270 => wv.u = 1000 * wv.speed /\ wv.v = 0

\* C7 as stated: for every speed S >= 0, S = 0 included, and every
\* direction D the direction recovered as atan2(-u, -v) equals D, and on
\* 0, 90, 180, 270 the vector is (0, -S), (-S, 0), (0, S), (S, 0).
C7_DirectionRecoveredAnySpeed ==
    wv.applied =>
        /\ Atan2Deg(0 - wv.u, 0 - wv.v) = wv.direction
        /\ CardinalComponents

\* C7 amended: for every speed S > 0 and every direction D the direction
\* recovered as atan2(-u, -v) equals D; at S = 0 the vector is (0, 0); on
\* 0, 90, 180, 270 the vector is (0, -S), (-S, 0), (0, S), (S, 0).
C7_DirectionRecoveredPositiveSpeed ==
    wv.applied =>
        /\ wv.speed > 0 => Atan2Deg(0 - wv.u, 0 - wv.v) = wv.direction
        /\ wv.speed = 0 => wv.u = 0 /\ wv.v = 0
        /\ CardinalComponents

\* a positive speed from 210 degrees: both components positive
C7_Witness ==
    /\ wv.applied
    /\ wv.speed > 0
    /\ wv.direction = 210
    /\ wv.u > 0
    /\ wv.v > 0
    /\ Atan2Deg(0 - wv.u, 0 - wv.v) = 210
====
